---------------------------- MODULE Spec2Model ----------------------------
(***************************************************************************)
(* Model of the audio playback scheduling of GdmLiveAudio (src/index.tsx). *)
(*                                                                         *)
(* The component keeps a watermark (nextStartTime) and a set of in-flight  *)
(* AudioBufferSourceNodes (sources).  Every server message is handled by   *)
(* the async callback onmessage, which suspends at `await                  *)
(* this.resumeOutputAudio()` and at `await decodeAudioData(...)`; between  *)
(* two suspension points a handler runs to completion, and at a suspension *)
(* point any other handler, event or clock advance may happen.  One action *)
(* of the model is one such run.  An await of a promise that is already    *)
(* settled resumes before any other task runs, so it is no suspension      *)
(* point of the model.                                                     *)
(*                                                                         *)
(* Time is counted in ticks of outputAudioContext.currentTime.             *)
(*                                                                         *)
(* Spec is the playback side: sessions, server messages, reset.  FairSpec  *)
(* is Spec with a clock that keeps running and fair 'ended' events.        *)
(* MicSpec is the microphone side: sessions, reset, startRecording,        *)
(* stopRecording and the audio callbacks, with no server message.          *)
(***************************************************************************)
EXTENDS Integers, Sequences, FiniteSets

\* ---- bounds of the model -------------------------------------------------
MaxMsgs == 3        \* server messages delivered to onmessage
MaxDur == 2         \* longest decoded buffer, in ticks
MaxClock == 2       \* last tick of outputAudioContext.currentTime explored
MaxResets == 1      \* clicks on the reset button
LiveMsgs == 2       \* server messages delivered under FairSpec
MaxStarts == 2      \* startRecording invocations
MaxFrames == 2      \* microphone frames sent with sendRealtimeInput

MsgIds == 1..MaxMsgs

\* decodeAudioData of ./utils either fails, for that chunk alone, or resolves,
\* after a latency of its own, with a buffer of some duration.
Durations == 1..MaxDur
SessIds == 0..MaxResets      \* initClient invocations: the constructor's, then one per reset
StartIds == 1..MaxStarts     \* startRecording invocations, and the MediaStream and
                             \* ScriptProcessorNode each of them acquires

VARIABLES
    clock,          \* outputAudioContext.currentTime
    ctxState,       \* outputAudioContext.state
    elPaused,       \* outputMediaElement.paused
    nextStartTime,  \* this.nextStartTime
    sources,        \* this.sources: ids of the nodes in the set
    node,           \* the AudioBufferSourceNode created for message i
    h,              \* the onmessage invocation for message i
    sess,           \* the session that initClient invocation k connects
    session,        \* this.session: a session id, or -1 while undefined
    chain,          \* history: the run of buffers started one after the other
                    \* since the watermark was last reset or raised to the
                    \* clock: their number, the first one's start time and the
                    \* sum of their durations
    afterIrq,       \* history: the interruption block ran and no node was
                    \* started since
    irqAt,          \* history: the clock value at which the interruption block
                    \* last ran, -1 while it never ran
    lastEnd,        \* history: start time plus duration of the buffer started
                    \* last, -1 if the interruption block or reset ran since
    resets,         \* history: reset() calls made
    isRecording,    \* this.isRecording
    mediaStream,    \* this.mediaStream: a stream id, or 0 while null
    sourceNode,     \* this.sourceNode: the id of its stream, or 0 while null
    scriptProcessorNode,  \* this.scriptProcessorNode: likewise
    inputCtxState,  \* inputAudioContext.state
    track,          \* the tracks of the stream invocation c acquired
    handler,        \* whether onaudioprocess is set on the processor of c
    rec,            \* the startRecording invocation c
    sent,           \* history: sendRealtimeInput calls made
    stuck           \* history: stopRecording has returned and startRecording
                    \* was not invoked since

\* The microphone side of the component.
mic == <<isRecording, mediaStream, sourceNode, scriptProcessorNode,
         inputCtxState, track, handler, rec, sent, stuck>>

vars == <<clock, ctxState, elPaused, nextStartTime, sources, node, h, sess,
          session, chain, afterIrq, irqAt, lastEnd, resets, mic>>

NoSession == -1
Null == 0

Max(a, b) == IF a >= b THEN a ELSE b

\* ---- the values the records take -----------------------------------------
NoNode == [started |-> FALSE, stopped |-> FALSE, ended |-> FALSE,
           when |-> 0, at |-> 0, dur |-> 0]

IdleHandler == [pc |-> "idle", audio |-> FALSE, valid |-> FALSE,
                interrupted |-> FALSE, ran |-> FALSE]

\* LiveServerMessage, as far as onmessage reads it: whether parts[0].inlineData
\* is present (line 194), whether it can be decoded (line 204), and
\* serverContent.interrupted (line 224).  A handler learns its message as it
\* reads it: a field of the handler's record holds its default until the
\* handler has read it, and a handler that fails records the interrupted
\* flag of the message it drops.
Messages ==
    [audio : {TRUE}, valid : BOOLEAN, interrupted : {FALSE}]
    \cup [audio : {FALSE}, valid : {FALSE}, interrupted : BOOLEAN]

\* ---- pieces of onmessage -------------------------------------------------

\* Mutant of StartAt: the watermark is set to the clock, Math.max forgotten.
StartAtClock(nst, clk) == clk

\* this.nextStartTime = Math.max(this.nextStartTime, currentTime)
StartAt(nst, clk) == Max(nst, clk)

\* Mutant of Advance: the watermark becomes the duration alone.
AdvanceToDuration(nst, dur) == dur

\* Mutant of Advance: the watermark is left where the buffer starts.
AdvanceForgotten(nst, dur) == nst

\* this.nextStartTime = this.nextStartTime + audioBuffer.duration
Advance(nst, dur) == nst + dur

\* A node that has been stopped or has ended renders nothing any more: what
\* is kept of it is that it was started, and how it finished.
Silenced(n) == [n EXCEPT !.when = 0, !.at = 0, !.dur = 0]

\* Mutant of StopAll: the nodes are dropped from the set without stop().
StopNone(nd, S) == nd

\* source.stop() on every node of S
StopAll(nd, S) ==
    [x \in MsgIds |->
        IF x \in S THEN [Silenced(nd[x]) EXCEPT !.stopped = TRUE] ELSE nd[x]]

\* Mutant of AfterStopLoop: the nodes are stopped and left in the set.
AfterStopLoopKept(S) == S

\* What is left of the set after `for (source of sources.values())
\* { source.stop(); sources.delete(source) }`: a Set iterated while its
\* visited element is deleted still visits every element.
AfterStopLoop(S) == S \ S

\* Mutant of InterruptTime: the watermark is zeroed, as line 401 does.
InterruptTimeZero(clk) == 0

\* The value the interruption block gives nextStartTime (line 231).
InterruptTime(clk) == clk

\* The interruption block (lines 225-233) on scheduler state st.
Interruption(st, clk) ==
    [node |-> StopAll(st.node, st.sources),
     sources |-> AfterStopLoop(st.sources),
     nextStartTime |-> InterruptTime(clk)]

\* Mutant of Register: the node is started and sources.add is left out.
RegisterNotAdded(i, st, clk, dur) ==
    [node |-> [st.node EXCEPT ![i] =
                  [started |-> TRUE, stopped |-> FALSE, ended |-> FALSE,
                   when |-> st.nextStartTime, at |-> clk, dur |-> dur]],
     sources |-> st.sources,
     nextStartTime |-> st.nextStartTime + dur]

\* Lines 210-221: the node for message i is created, started at the
\* watermark and put in the set; the watermark advances by its duration.
Register(i, st, clk, dur) ==
    [node |-> [st.node EXCEPT ![i] =
                  [started |-> TRUE, stopped |-> FALSE, ended |-> FALSE,
                   when |-> st.nextStartTime, at |-> clk, dur |-> dur]],
     sources |-> st.sources \cup {i},
     nextStartTime |-> Advance(st.nextStartTime, dur)]

\* Mutant of HandlerEnd: the interruption block is skipped.
HandlerEndSkipped(interrupted, st, clk) == st

\* Lines 224-233: the end of the handler, from scheduler state st.
HandlerEnd(interrupted, st, clk) ==
    IF interrupted THEN Interruption(st, clk) ELSE st

NoChain == [n |-> 0, first |-> 0, sum |-> 0]

\* The run of buffers, after one more is started at `when` for `dur`.
Extend(c, when, dur) ==
    [n |-> c.n + 1, first |-> IF c.n = 0 THEN when ELSE c.first, sum |-> c.sum + dur]

Sched == [node |-> node, sources |-> sources, nextStartTime |-> nextStartTime]

Finish(i, interrupted, st) ==
    /\ node' = st.node
    /\ sources' = st.sources
    /\ nextStartTime' = st.nextStartTime
    /\ h' = [h EXCEPT ![i].pc = "done", ![i].interrupted = interrupted,
                      ![i].ran = interrupted]

\* The time at which a started node begins to sound: start(when) with when in
\* the past starts at once.
Sounds(n) == Max(n.when, n.at)

\* The step in which source.start is called for message i.
Registered(i) == ~node[i].started /\ node'[i].started

\* The nodes that are started and have neither been stopped nor ended.
Live == {x \in MsgIds : node[x].started /\ ~node[x].stopped /\ ~node[x].ended}

\* Node x has played to its end and its 'ended' event is yet to be delivered.
Finished(x) ==
    x \in sources /\ clock >= Sounds(node[x]) + node[x].dur

\* ---- the state after construction ----------------------------------------
\* The constructor has run initClient (lines 122-175) and initSession up to
\* its await of client.live.connect: initAudio has set the watermark to
\* currentTime and the first session is being connected.  (Where setSinkId
\* exists, line 162 awaits it first and connect is called one task later;
\* nothing of this state changes in between.)
Init ==
    /\ clock = 0
    /\ ctxState \in {"suspended", "running"}
    /\ elPaused = TRUE
    /\ nextStartTime = 0
    /\ sources = {}
    /\ node = [i \in MsgIds |-> NoNode]
    /\ h = [i \in MsgIds |-> IdleHandler]
    /\ sess = [k \in SessIds |-> IF k = 0 THEN "connecting" ELSE "none"]
    /\ session = NoSession
    /\ chain = NoChain
    /\ afterIrq = FALSE
    /\ irqAt = -1
    /\ lastEnd = -1
    /\ resets = 0
    /\ isRecording = FALSE
    /\ mediaStream = Null
    /\ sourceNode = Null
    /\ scriptProcessorNode = Null
    /\ inputCtxState = "suspended"
    /\ track = [c \in StartIds |-> "none"]
    /\ handler = [c \in StartIds |-> FALSE]
    /\ rec = [c \in StartIds |-> "idle"]
    /\ sent = 0
    /\ stuck = FALSE

\* ---- the environment -----------------------------------------------------

\* currentTime advances while the context runs.
Tick ==
    /\ ctxState = "running"
    /\ clock < MaxClock
    /\ clock' = clock + 1
    /\ UNCHANGED <<ctxState, elPaused, nextStartTime, sources, node, h, sess,
                   session, chain, afterIrq, irqAt, lastEnd, resets, mic>>

\* ---- initClient / initSession --------------------------------------------

\* live.connect resolves: this.session = the new session (line 183).
ConnectResolved(k) ==
    /\ sess[k] = "connecting"
    /\ sess' = [sess EXCEPT ![k] = "open"]
    /\ session' = k
    /\ UNCHANGED <<clock, ctxState, elPaused, nextStartTime, sources, node, h,
                   chain, afterIrq, irqAt, lastEnd, resets, mic>>

\* live.connect rejects: the catch of lines 258-261, this.session is kept.
ConnectRejected(k) ==
    /\ sess[k] = "connecting"
    /\ sess' = [sess EXCEPT ![k] = "closed"]
    /\ UNCHANGED <<clock, ctxState, elPaused, nextStartTime, sources, node, h,
                   session, chain, afterIrq, irqAt, lastEnd, resets, mic>>

\* Session s is open: onopen only reports it (lines 186-189); status and error
\* texts are not part of the state.
onopen(s) ==
    /\ sess[s] = "open"
    /\ UNCHANGED vars

\* Session s reports an error: onerror only reports it (lines 235-238).
onerror(s) ==
    /\ sess[s] = "open"
    /\ UNCHANGED vars

\* The server ends session s: onclose only reports it (lines 239-246).
onclose(s) ==
    /\ sess[s] = "open"
    /\ sess' = [sess EXCEPT ![s] = "closed"]
    /\ UNCHANGED <<clock, ctxState, elPaused, nextStartTime, sources, node, h,
                   session, chain, afterIrq, irqAt, lastEnd, resets, mic>>

\* ---- onmessage -----------------------------------------------------------

\* Lines 194-209 and 224-233: the handler of message i continues after
\* resumeOutputAudio.  With audio it raises the watermark to the clock and
\* suspends in decodeAudioData; without, it runs to its end.
Body(i, m) ==
    IF m.audio
      THEN /\ nextStartTime' = StartAt(nextStartTime, clock)
           /\ chain' = IF clock > nextStartTime THEN NoChain ELSE chain
           /\ h' = [h EXCEPT ![i].pc = "decode", ![i].audio = TRUE,
                             ![i].valid = m.valid]
           /\ UNCHANGED <<sources, node, afterIrq, irqAt, lastEnd>>
      ELSE /\ Finish(i, m.interrupted, HandlerEnd(m.interrupted, Sched, clock))
           /\ chain' = IF m.interrupted THEN NoChain ELSE chain
           /\ afterIrq' = (afterIrq \/ m.interrupted)
           /\ irqAt' = IF m.interrupted THEN clock ELSE irqAt
           /\ lastEnd' = IF m.interrupted THEN -1 ELSE lastEnd

\* Lines 105-114: resumeOutputAudio with the context running.  A paused
\* element is asked to play: play() either is refused at once (the rejection
\* is caught and the handler goes on), or unpauses the element and settles
\* later.
PlayOrBody(i, allowed, m) ==
    IF elPaused /\ allowed
      THEN /\ elPaused' = FALSE
           /\ h' = [h EXCEPT ![i].pc = "play"]
           /\ UNCHANGED <<nextStartTime, sources, node, chain, afterIrq, irqAt,
                           lastEnd>>
      ELSE /\ UNCHANGED elPaused
           /\ Body(i, m)

\* Message i arrives on an open session: onmessage runs into
\* resumeOutputAudio (lines 190-192, 99-102), which suspends in
\* outputAudioContext.resume() while the context is suspended.
Deliver(i, allowed, m) ==
    /\ h[i].pc = "idle"
    /\ \A j \in MsgIds : j < i => h[j].pc # "idle"
    /\ \E s \in SessIds : sess[s] = "open"
    /\ IF ctxState = "suspended"
         THEN /\ h' = [h EXCEPT ![i].pc = "resume"]
              /\ UNCHANGED <<elPaused, nextStartTime, sources, node, chain,
                             afterIrq, irqAt, lastEnd>>
         ELSE PlayOrBody(i, allowed, m)
    /\ UNCHANGED <<clock, ctxState, sess, session, resets, mic>>

\* outputAudioContext.resume() resolves (lines 102-105); the promises of one
\* context settle in the order they were made.
ResumeResolved(i, allowed, m) ==
    /\ h[i].pc = "resume"
    /\ \A j \in MsgIds : j < i => h[j].pc # "resume"
    /\ ctxState' = "running"
    /\ PlayOrBody(i, allowed, m)
    /\ UNCHANGED <<clock, sess, session, resets, mic>>

\* outputAudioContext.resume() rejects: resumeOutputAudio throws and the
\* handler ends there, whatever its message held.
ResumeRejected(i, interrupted) ==
    /\ h[i].pc = "resume"
    /\ \A j \in MsgIds : j < i => h[j].pc # "resume"
    /\ h' = [h EXCEPT ![i].pc = "failed", ![i].interrupted = interrupted]
    /\ UNCHANGED <<clock, ctxState, elPaused, nextStartTime, sources, node,
                   sess, session, chain, afterIrq, irqAt, lastEnd, resets, mic>>

\* outputMediaElement.play() settles (lines 108-113, a rejection is caught);
\* the promises of one element settle in the order they were made.
PlaySettled(i, m) ==
    /\ h[i].pc = "play"
    /\ \A j \in MsgIds : j < i => h[j].pc # "play"
    /\ Body(i, m)
    /\ UNCHANGED <<clock, ctxState, elPaused, sess, session, resets, mic>>

\* decodeAudioData resolves with a buffer of duration dur: the buffer is
\* registered, and the handler runs to its end (lines 210-233).
DecodeResolved(i, dur, interrupted) ==
    /\ h[i].pc = "decode"
    /\ h[i].valid
    /\ Finish(i, interrupted,
              HandlerEnd(interrupted, Register(i, Sched, clock, dur), clock))
    /\ chain' = IF interrupted THEN NoChain ELSE Extend(chain, nextStartTime, dur)
    /\ afterIrq' = interrupted
    /\ irqAt' = IF interrupted THEN clock ELSE irqAt
    /\ lastEnd' = IF interrupted THEN -1 ELSE nextStartTime + dur
    /\ UNCHANGED <<clock, ctxState, elPaused, sess, session, resets, mic>>

\* decode / decodeAudioData throws: the handler ends there, whatever else its
\* message held.
DecodeRejected(i, interrupted) ==
    /\ h[i].pc = "decode"
    /\ ~h[i].valid
    /\ h' = [h EXCEPT ![i].pc = "failed", ![i].interrupted = interrupted]
    /\ UNCHANGED <<clock, ctxState, elPaused, nextStartTime, sources, node,
                   sess, session, chain, afterIrq, irqAt, lastEnd, resets, mic>>

\* Mutant of AfterEnded: the listener leaves the set as it is.
AfterEndedKept(S, x) == S

\* Mutant of AfterEnded: the listener empties the set.
AfterEndedEmptied(S, x) == {}

\* this.sources.delete(source) (line 214)
AfterEnded(S, x) == S \ {x}

\* The 'ended' listener of node x (lines 213-216); the event is fired once the
\* node has played to its end or has been stopped.
Ended(x) ==
    /\ node[x].started
    /\ ~node[x].ended
    /\ node[x].stopped \/ clock >= Sounds(node[x]) + node[x].dur
    /\ sources' = AfterEnded(sources, x)
    /\ node' = [node EXCEPT ![x] = [Silenced(node[x]) EXCEPT !.ended = TRUE]]
    /\ UNCHANGED <<clock, ctxState, elPaused, nextStartTime, h, sess,
                   session, chain, afterIrq, irqAt, lastEnd, resets, mic>>

\* ---- the microphone ------------------------------------------------------

\* session.isClosed, as lines 317, 318 and 392 read it.
isClosed(s) == sess[s] = "closed"

\* Mutant of MaySend: the state of the session is not looked at.
MaySendUnchecked(recording, sn) == recording /\ sn # NoSession

\* The guard of line 317 lets the frame through.
MaySend(recording, sn) == recording /\ sn # NoSession /\ ~isClosed(sn)

\* stopRecording() (lines 351-386): nothing to stop and it returns at once;
\* otherwise the processor and the stream that the fields hold are taken down
\* and the fields nulled.
StopRec ==
    /\ stuck' = TRUE
    /\ IF ~isRecording /\ mediaStream = Null
         THEN UNCHANGED <<isRecording, mediaStream, sourceNode,
                          scriptProcessorNode, track, handler>>
         ELSE /\ isRecording' = FALSE
              /\ handler' = [c \in StartIds |->
                               IF c = scriptProcessorNode THEN FALSE ELSE handler[c]]
              /\ scriptProcessorNode' = Null
              /\ sourceNode' = Null
              /\ track' = [c \in StartIds |->
                             IF c = mediaStream THEN "stopped" ELSE track[c]]
              /\ mediaStream' = Null

\* The stop button, enabled while isRecording (line 445).
stopRecording ==
    /\ isRecording
    /\ StopRec
    /\ UNCHANGED <<clock, ctxState, elPaused, nextStartTime, sources, node, h,
                   sess, session, chain, afterIrq, irqAt, lastEnd, resets,
                   inputCtxState, rec, sent>>

\* Lines 105-114 and 291-293 in startRecording: a paused element is asked to
\* play, and once that has settled, or at once, getUserMedia is called.
RecPlayOrGum(c, allowed) ==
    IF elPaused /\ allowed
      THEN /\ elPaused' = FALSE
           /\ rec' = [rec EXCEPT ![c] = "play"]
      ELSE /\ UNCHANGED elPaused
           /\ rec' = [rec EXCEPT ![c] = "gum"]

\* Lines 289, 99-104: resumeOutputAudio suspends in resume() while the output
\* context is suspended.
RecOutput(c, allowed) ==
    IF ctxState = "suspended"
      THEN /\ rec' = [rec EXCEPT ![c] = "outResume"]
           /\ UNCHANGED elPaused
      ELSE RecPlayOrGum(c, allowed)

\* The start button, enabled while not isRecording (line 432): startRecording
\* passes its guard (line 277) and runs to its first await (lines 284-293).
startRecording(c, allowed) ==
    /\ rec[c] = "idle"
    /\ \A d \in StartIds : d < c => rec[d] # "idle"
    /\ ~isRecording
    /\ stuck' = FALSE
    /\ IF inputCtxState = "suspended"
         THEN /\ rec' = [rec EXCEPT ![c] = "inResume"]
              /\ UNCHANGED elPaused
         ELSE RecOutput(c, allowed)
    /\ UNCHANGED <<clock, ctxState, nextStartTime, sources, node, h, sess,
                   session, chain, afterIrq, irqAt, lastEnd, resets,
                   isRecording, mediaStream, sourceNode, scriptProcessorNode,
                   inputCtxState, track, handler, sent>>

\* inputAudioContext.resume() resolves (lines 286-289).
InputResumed(c, allowed) ==
    /\ rec[c] = "inResume"
    /\ \A d \in StartIds : d < c => rec[d] # "inResume"
    /\ inputCtxState' = "running"
    /\ RecOutput(c, allowed)
    /\ UNCHANGED <<clock, ctxState, nextStartTime, sources, node, h, sess,
                   session, chain, afterIrq, irqAt, lastEnd, resets,
                   isRecording, mediaStream, sourceNode, scriptProcessorNode,
                   track, handler, sent, stuck>>

\* outputAudioContext.resume() resolves in resumeOutputAudio (lines 102-105).
OutputResumed(c, allowed) ==
    /\ rec[c] = "outResume"
    /\ \A d \in StartIds : d < c => rec[d] # "outResume"
    /\ ctxState' = "running"
    /\ RecPlayOrGum(c, allowed)
    /\ UNCHANGED <<clock, nextStartTime, sources, node, h, sess,
                   session, chain, afterIrq, irqAt, lastEnd, resets,
                   isRecording, mediaStream, sourceNode, scriptProcessorNode,
                   inputCtxState, track, handler, sent, stuck>>

\* One of the resume() calls rejects: lines 284-289 are outside the try, so
\* startRecording ends there.
RecResumeRejected(c) ==
    /\ rec[c] \in {"inResume", "outResume"}
    /\ \A d \in StartIds : d < c => rec[d] # rec[c]
    /\ rec' = [rec EXCEPT ![c] = "failed"]
    /\ UNCHANGED <<clock, ctxState, elPaused, nextStartTime, sources, node, h,
                   sess, session, chain, afterIrq, irqAt, lastEnd, resets,
                   isRecording, mediaStream, sourceNode, scriptProcessorNode,
                   inputCtxState, track, handler, sent, stuck>>

\* outputMediaElement.play() settles (lines 108-113): getUserMedia is called.
RecPlaySettled(c) ==
    /\ rec[c] = "play"
    /\ \A d \in StartIds : d < c => rec[d] # "play"
    /\ rec' = [rec EXCEPT ![c] = "gum"]
    /\ UNCHANGED <<clock, ctxState, elPaused, nextStartTime, sources, node, h,
                   sess, session, chain, afterIrq, irqAt, lastEnd, resets,
                   isRecording, mediaStream, sourceNode, scriptProcessorNode,
                   inputCtxState, track, handler, sent, stuck>>

\* getUserMedia resolves (lines 293-342): the stream, its source node and its
\* processor are stored in the fields, onaudioprocess is set, isRecording
\* becomes true.
GumResolved(c) ==
    /\ rec[c] = "gum"
    /\ rec' = [rec EXCEPT ![c] = "done"]
    /\ mediaStream' = c
    /\ track' = [track EXCEPT ![c] = "live"]
    /\ sourceNode' = c
    /\ scriptProcessorNode' = c
    /\ handler' = [handler EXCEPT ![c] = TRUE]
    /\ isRecording' = TRUE
    /\ UNCHANGED <<clock, ctxState, elPaused, nextStartTime, sources, node, h,
                   sess, session, chain, afterIrq, irqAt, lastEnd, resets,
                   inputCtxState, sent, stuck>>

\* getUserMedia rejects: the catch of lines 343-348.
GumRejected(c) ==
    /\ rec[c] = "gum"
    /\ rec' = [rec EXCEPT ![c] = "failed"]
    /\ isRecording' = FALSE
    /\ UNCHANGED <<clock, ctxState, elPaused, nextStartTime, sources, node, h,
                   sess, session, chain, afterIrq, irqAt, lastEnd, resets,
                   mediaStream, sourceNode, scriptProcessorNode,
                   inputCtxState, track, handler, sent, stuck>>

\* The processor of invocation c delivers a frame to its onaudioprocess
\* (lines 316-335): the frame is sent, or, the session being closed,
\* stopRecording is called, or nothing happens.  A sendRealtimeInput that
\* throws is caught and only reported.
onaudioprocess(c) ==
    /\ handler[c]
    /\ inputCtxState = "running"
    /\ IF MaySend(isRecording, session)
         THEN /\ sent < MaxFrames
              /\ sent' = sent + 1
              /\ UNCHANGED <<isRecording, mediaStream, sourceNode,
                             scriptProcessorNode, track, handler, stuck>>
         ELSE /\ UNCHANGED sent
              /\ IF session # NoSession /\ isClosed(session)
                   THEN StopRec
                   ELSE UNCHANGED <<isRecording, mediaStream, sourceNode,
                                    scriptProcessorNode, track, handler, stuck>>
    /\ UNCHANGED <<clock, ctxState, elPaused, nextStartTime, sources, node, h,
                   sess, session, chain, afterIrq, irqAt, lastEnd, resets,
                   inputCtxState, rec>>

\* ---- reset ---------------------------------------------------------------

\* Mutant of ResetTime: line 401 alone, initAudio does not re-read the clock.
ResetTimeZero(clk) == 0

\* The value reset leaves in nextStartTime when it suspends: 0 (line 401),
\* then initAudio's currentTime (line 118).
ResetTime(clk) == clk

\* What lines 397-401 and initAudio (line 118) make of scheduler state st.
ResetSched(st, clk) ==
    [node |-> StopAll(st.node, st.sources),
     sources |-> AfterStopLoop(st.sources),
     nextStartTime |-> ResetTime(clk)]

\* The reset button, enabled while not isRecording (line 421): reset() up to
\* its await of client.live.connect (lines 388-406, 122-183).  stopRecording
\* is called, the current session is closed, the in-flight nodes are stopped
\* and dropped, the watermark is re-read and a new session is being connected.
reset ==
    /\ resets < MaxResets
    /\ ~isRecording
    /\ StopRec
    /\ resets' = resets + 1
    /\ sess' = [k \in SessIds |->
                 IF k = resets + 1 THEN "connecting"
                 ELSE IF k = session /\ sess[k] # "closed" THEN "closed"
                 ELSE sess[k]]
    /\ node' = ResetSched(Sched, clock).node
    /\ sources' = ResetSched(Sched, clock).sources
    /\ nextStartTime' = ResetSched(Sched, clock).nextStartTime
    /\ chain' = NoChain
    /\ afterIrq' = FALSE
    /\ lastEnd' = -1
    /\ UNCHANGED <<clock, ctxState, elPaused, h, session, irqAt,
                   inputCtxState, rec, sent>>

\* ---- the specification ---------------------------------------------------
Next ==
    \/ Tick
    \/ \E k \in SessIds : ConnectResolved(k)
    \/ \E k \in SessIds : ConnectRejected(k)
    \/ \E s \in SessIds : onopen(s)
    \/ \E s \in SessIds : onerror(s)
    \/ \E s \in SessIds : onclose(s)
    \/ \E i \in MsgIds, ok \in BOOLEAN, m \in Messages : Deliver(i, ok, m)
    \/ \E i \in MsgIds, ok \in BOOLEAN, m \in Messages : ResumeResolved(i, ok, m)
    \/ \E i \in MsgIds, b \in BOOLEAN : ResumeRejected(i, b)
    \/ \E i \in MsgIds, m \in Messages : PlaySettled(i, m)
    \/ \E i \in MsgIds, d \in Durations, b \in BOOLEAN : DecodeResolved(i, d, b)
    \/ \E i \in MsgIds, b \in BOOLEAN : DecodeRejected(i, b)
    \/ \E x \in MsgIds : Ended(x)
    \/ reset

Spec == Init /\ [][Next]_vars

\* ---- the specification with a clock that keeps running ---------------------
\* currentTime advances while the context runs; here it is followed past
\* MaxClock for as long as a node of the set has yet to play to its end.
TickOn ==
    /\ ctxState = "running"
    /\ clock < MaxClock \/ \E x \in sources : ~Finished(x)
    /\ clock' = clock + 1
    /\ UNCHANGED <<ctxState, elPaused, nextStartTime, sources, node, h, sess,
                   session, chain, afterIrq, irqAt, lastEnd, resets, mic>>

LiveIds == 1..LiveMsgs

NextOn ==
    \/ TickOn
    \/ \E k \in SessIds : ConnectResolved(k)
    \/ \E k \in SessIds : ConnectRejected(k)
    \/ \E s \in SessIds : onopen(s)
    \/ \E s \in SessIds : onerror(s)
    \/ \E s \in SessIds : onclose(s)
    \/ \E i \in LiveIds, ok \in BOOLEAN, m \in Messages : Deliver(i, ok, m)
    \/ \E i \in LiveIds, ok \in BOOLEAN, m \in Messages : ResumeResolved(i, ok, m)
    \/ \E i \in LiveIds, b \in BOOLEAN : ResumeRejected(i, b)
    \/ \E i \in LiveIds, m \in Messages : PlaySettled(i, m)
    \/ \E i \in LiveIds, d \in Durations, b \in BOOLEAN : DecodeResolved(i, d, b)
    \/ \E i \in LiveIds, b \in BOOLEAN : DecodeRejected(i, b)
    \/ \E x \in LiveIds : Ended(x)
    \/ reset

\* The audio clock of a running context is driven by the hardware, and the
\* 'ended' event of a node that has played out or was stopped is queued by
\* the browser and dispatched by the event loop.
FairSpec ==
    /\ Init
    /\ [][NextOn]_vars
    /\ WF_vars(TickOn)
    /\ \A x \in LiveIds : WF_vars(Ended(x))

\* ---- the specification of the microphone side -----------------------------
\* The sessions, reset and the recording controls, with no server message.
MicNext ==
    \/ \E k \in SessIds : ConnectResolved(k)
    \/ \E k \in SessIds : ConnectRejected(k)
    \/ \E s \in SessIds : onopen(s)
    \/ \E s \in SessIds : onerror(s)
    \/ \E s \in SessIds : onclose(s)
    \/ reset
    \/ \E c \in StartIds, ok \in BOOLEAN : startRecording(c, ok)
    \/ \E c \in StartIds, ok \in BOOLEAN : InputResumed(c, ok)
    \/ \E c \in StartIds, ok \in BOOLEAN : OutputResumed(c, ok)
    \/ \E c \in StartIds : RecResumeRejected(c)
    \/ \E c \in StartIds : RecPlaySettled(c)
    \/ \E c \in StartIds : GumResolved(c)
    \/ \E c \in StartIds : GumRejected(c)
    \/ stopRecording
    \/ \E c \in StartIds : onaudioprocess(c)

MicSpec == Init /\ [][MicNext]_vars

TypeOK ==
    /\ clock \in 0..MaxClock
    /\ ctxState \in {"suspended", "running"}
    /\ elPaused \in BOOLEAN
    /\ nextStartTime \in Nat
    /\ sources \subseteq MsgIds
    /\ session \in SessIds \cup {NoSession}
    /\ \A i \in MsgIds :
         h[i].pc \in {"idle", "resume", "play", "decode", "done", "failed"}

\* ---- the claims ----------------------------------------------------------

\* C1: gapless concatenation.  While the watermark is neither reset nor raised
\* to the clock, the k-th buffer is started at the first buffer's start time
\* plus the durations of the k-1 buffers before it, and the watermark is the
\* first start time plus the durations of all buffers started so far.
Gapless ==
    [][ /\ \A i \in MsgIds :
             Registered(i) /\ ~node'[i].stopped /\ chain.n > 0
                 => node'[i].when = chain.first + chain.sum
        /\ chain'.n > 0 => nextStartTime' = chain'.first + chain'.sum ]_vars

\* Three buffers of unequal durations queued back to back, none finished.
GaplessReached ==
    /\ chain.n = 3
    /\ sources = {1, 2, 3}
    /\ \E a, b, c \in MsgIds :
         /\ node[b].when = node[a].when + node[a].dur
         /\ node[c].when = node[b].when + node[b].dur
         /\ node[a].dur # node[b].dur
         /\ nextStartTime = node[c].when + node[c].dur

\* C2: a chunk delivered before an interruption message is not in flight once
\* the interruption message's handler has finished.
StaleAudioGone ==
    \A i, j \in MsgIds : i < j /\ h[i].audio /\ h[j].ran => i \notin sources

\* C3: the step that runs the interruption block leaves the in-flight set
\* empty, every node that was in it stopped, and the watermark at the clock.
InterruptPost ==
    [][ \A i \in MsgIds :
          ~h[i].ran /\ h'[i].ran
              => /\ sources' = {}
                 /\ nextStartTime' = clock'
                 /\ \A x \in MsgIds :
                      x \in sources \/ Registered(x) => node'[x].stopped ]_vars

\* The interruption block has run, after the clock moved, on two nodes, with
\* audio queued ahead of the clock.
InterruptPostReached ==
    /\ \E i \in MsgIds : h[i].ran
    /\ clock > 0
    /\ sources = {}
    /\ nextStartTime = clock
    /\ Cardinality({x \in MsgIds : node[x].stopped /\ ~node[x].ended}) >= 2

\* C4: no node in flight was started at a time before the clock value of the
\* moment source.start was called.
NeverInThePast ==
    \A x \in Live : node[x].when >= node[x].at

\* C5: no step of the handler of a chunk whose decode fails changes the
\* watermark or the in-flight set.
DecodeFailureFrame ==
    [][ \A i \in MsgIds :
          h'[i] # h[i] /\ h'[i].audio /\ ~h'[i].valid
              => nextStartTime' = nextStartTime /\ sources' = sources ]_vars

\* C6: the handler of every message with serverContent.interrupted set has
\* run the interruption block by the time it finishes.
OneInterruptPerEvent ==
    \A i \in MsgIds :
        h[i].interrupted /\ h[i].pc \in {"done", "failed"} => h[i].ran

\* C7: of two chunks in flight, the one delivered first ends before the other
\* starts.
InSubmissionOrder ==
    \A i, j \in sources : i < j => node[i].when + node[i].dur <= node[j].when

\* C8: no two nodes of the in-flight set sound at the same time.
NoOverlap ==
    \A x, y \in sources :
        x # y => \/ Sounds(node[x]) + node[x].dur <= Sounds(node[y])
                 \/ Sounds(node[y]) + node[y].dur <= Sounds(node[x])

\* C9: a node is in the in-flight set if and only if it has been started and
\* has neither ended nor been stopped.
Membership ==
    \A x \in MsgIds : x \in sources <=> x \in Live

\* One node in flight, one stopped, one ended by itself.
MembershipReached ==
    \E x, y, z \in MsgIds :
        /\ x \in sources
        /\ node[y].stopped
        /\ node[z].ended /\ ~node[z].stopped

\* C10: the first buffer started after the interruption block is started
\* within one tick of the clock value of that moment.
NoDurationDebt ==
    [][ \A i \in MsgIds :
          afterIrq /\ Registered(i) /\ ~node'[i].stopped
              => /\ node'[i].when <= node'[i].at + 1
                 /\ node'[i].at <= node'[i].when + 1 ]_vars

\* C11: once the interruption block has run at clock value T, the watermark
\* is never below T, and every source.start(t) called later has t >= T,
\* whatever handlers were pending at the interruption and whether or not
\* reset ran since.
InterruptBarrier ==
    [][ /\ irqAt' >= 0 => nextStartTime' >= irqAt'
        /\ \A i \in MsgIds :
             Registered(i) /\ irqAt >= 0
                 => /\ nextStartTime >= irqAt
                    /\ ~node'[i].stopped => node'[i].when >= irqAt ]_vars

\* A chunk delivered before the interruption message, decoded after the
\* interruption block ran at a clock value above 0, is in flight.
InterruptBarrierReached ==
    \E x \in sources, j \in MsgIds :
        x < j /\ h[j].ran /\ irqAt >= 1 /\ node[x].when >= irqAt

\* C12: the watermark is never behind the clock.
WatermarkAhead ==
    nextStartTime >= clock

\* The decode of chunk k fails: the handler has read the audio and its decode
\* is failing or has failed.
DecodeFails(k) ==
    h[k].audio /\ ~h[k].valid /\ h[k].pc \in {"decode", "failed"}

\* C13: when the decode of chunk j-1 fails and chunk j decodes, with no
\* interruption, reset or catch-up to the clock since the last buffer was
\* started, chunk j is started exactly where that last buffer ends and is put
\* in the in-flight set; and the failure of chunk j-1 does not keep a decoded
\* chunk j from being started.
ContiguousAfterFailure ==
    [][ \A j \in MsgIds \ {1} :
          DecodeFails(j - 1)
              => /\ Registered(j) /\ chain.n > 0 /\ ~node'[j].stopped
                      => /\ node'[j].when = lastEnd
                         /\ node'[j].when = chain.first + chain.sum
                         /\ j \in sources'
                 /\ h[j].pc = "decode" /\ h[j].valid
                      => \A d \in Durations : ENABLED DecodeResolved(j, d, FALSE) ]_vars

\* Chunk 1 in flight, the decode of chunk 2 failed, chunk 3 in flight and
\* starting where chunk 1 ends.
ContiguousAfterFailureReached ==
    /\ h[2].pc = "failed" /\ h[2].audio
    /\ {1, 3} \subseteq sources
    /\ node[3].when = node[1].when + node[1].dur
    /\ nextStartTime = node[3].when + node[3].dur

\* C14: a buffer started after another, with neither the interruption block
\* nor reset in between, is started no earlier than the other's start time
\* plus its duration.
MonotoneStarts ==
    [][ \A j \in MsgIds :
          Registered(j) /\ lastEnd >= 0
              => /\ nextStartTime >= lastEnd
                 /\ ~node'[j].stopped => node'[j].when >= lastEnd ]_vars

\* Two buffers in flight with a gap between them: the clock had overtaken the
\* watermark when the handler of the later one read it.
MonotoneStartsReached ==
    \E x, y \in sources :
        /\ node[y].when > node[x].when + node[x].dur
        /\ lastEnd = node[y].when + node[y].dur

\* C15: the synchronous part of reset leaves the in-flight set empty, every
\* node that was in it stopped and the watermark at the clock; with nothing
\* in flight it changes no node; and a second reset called on the state the
\* first one left changes nothing but the watermark, which it sets to the
\* clock read again.
ResetPost ==
    [][ resets' # resets
          => /\ sources' = {}
             /\ nextStartTime' = clock'
             /\ \A x \in sources : node'[x].stopped
             /\ sources = {} => node' = node
             /\ \A c \in clock'..MaxClock :
                  ResetSched([node |-> node', sources |-> sources',
                              nextStartTime |-> nextStartTime'], c)
                    = [node |-> node', sources |-> sources', nextStartTime |-> c]
       ]_vars

\* reset has run, after the clock moved, on two nodes in flight.
ResetPostReached ==
    /\ resets = 1
    /\ clock > 0
    /\ sources = {}
    /\ nextStartTime = clock
    /\ \A i \in MsgIds : ~h[i].ran
    /\ Cardinality({x \in MsgIds : node[x].stopped /\ ~node[x].ended}) >= 2

\* C16: when the interruption block runs again with no buffer started since
\* it last ran, the in-flight set is and stays empty, the watermark becomes
\* the clock value of this run, and no node changes.
InterruptTwice ==
    [][ \A i \in MsgIds :
          afterIrq /\ ~h[i].ran /\ h'[i].ran /\ ~Registered(i)
              => /\ sources = {} /\ sources' = {}
                 /\ nextStartTime' = clock'
                 /\ node' = node ]_vars

\* Every message was an interruption, one of them stopped a node, and the
\* last interruption block ran after the clock had moved.
InterruptTwiceReached ==
    /\ \A i \in MsgIds : h[i].ran
    /\ \E x \in MsgIds : node[x].stopped
    /\ afterIrq /\ irqAt >= 1
    /\ sources = {} /\ nextStartTime = clock

\* C17: no buffer is started while every session the component ever opened
\* is closed and none is being connected.
NoStartAfterClose ==
    [][ \A i \in MsgIds :
          Registered(i) => \E s \in SessIds : sess[s] \in {"open", "connecting"} ]_vars

\* C18: the interruption block, run while a node of the set has already
\* played to its end, empties the set and stops every node of it; and the
\* 'ended' event of a node that was stopped, delivered afterwards, changes
\* neither the set nor the watermark nor any other node.
LateEndedNoOp ==
    [][ /\ \A i \in MsgIds :
             ~h[i].ran /\ h'[i].ran /\ (\E x \in MsgIds : Finished(x))
                 => sources' = {} /\ \A y \in sources : node'[y].stopped
        /\ \A x \in MsgIds :
             node[x].stopped /\ ~node[x].ended /\ node'[x].ended
                 => /\ sources' = sources
                    /\ nextStartTime' = nextStartTime
                    /\ \A y \in MsgIds \ {x} : node'[y] = node[y] ]_vars

\* The 'ended' event of a node stopped by the interruption block has been
\* delivered while a buffer started after the interruption is in flight.
LateEndedNoOpReached ==
    /\ resets = 0
    /\ \E i \in MsgIds : h[i].ran
    /\ \E x \in MsgIds : node[x].stopped /\ node[x].ended
    /\ sources # {}

\* C19: with the clock running and 'ended' events delivered, every node put
\* in the in-flight set leaves it again; the 'ended' listener of a node, once
\* it has run, does not run again; and from some moment on the set stays
\* empty.
EventuallyRemoved ==
    /\ \A x \in MsgIds : (x \in sources) ~> (x \notin sources)
    /\ [][ \A x \in MsgIds : node[x].ended => node'[x] = node[x] ]_vars
    /\ <>[](sources = {})

\* Both buffers were started and have left the set for good, one by playing
\* to its end past MaxClock, one by being stopped.
EventuallyRemovedReached ==
    /\ sources = {}
    /\ clock > MaxClock
    /\ \A i \in LiveIds : node[i].ended
    /\ \E x, y \in LiveIds : ~node[x].stopped /\ node[y].stopped

\* A step of the handler of a chunk that decodes: lines 199-202 or 210-221.
Schedules(i) ==
    h'[i] # h[i] /\ h'[i].audio /\ h'[i].valid

\* C20: the watermark changes only in a step of the handler of a chunk that
\* decodes, in a step that runs the interruption block, and in reset; onopen,
\* onerror and onclose change neither the watermark nor the in-flight set; and
\* the 'ended' listener leaves the watermark and removes from the set its own
\* node and nothing else.
WatermarkFrame ==
    [][ /\ nextStartTime' # nextStartTime
             => \/ resets' # resets
                \/ \E i \in MsgIds : ~h[i].ran /\ h'[i].ran
                \/ \E i \in MsgIds : Schedules(i)
        /\ \A s \in SessIds :
             onopen(s) \/ onerror(s) \/ onclose(s)
                 => nextStartTime' = nextStartTime /\ sources' = sources
        /\ \A x \in MsgIds :
             Ended(x) => nextStartTime' = nextStartTime /\ sources' = sources \ {x}
      ]_vars

\* C21: the handler step that starts the buffer of a message and runs the
\* interruption block for the same message leaves the in-flight set empty,
\* that buffer's node stopped, and the watermark at the clock.
OwnAudioCancelled ==
    [][ \A i \in MsgIds :
          Registered(i) /\ h'[i].ran
              => /\ sources' = {}
                 /\ node'[i].stopped
                 /\ nextStartTime' = clock' ]_vars

\* A message with audio and the interrupted flag was handled after the clock
\* moved: its own node and a node started before it have been stopped.
OwnAudioCancelledReached ==
    \E i, x \in MsgIds :
        /\ x # i
        /\ h[i].audio /\ h[i].ran /\ node[i].stopped /\ ~node[i].ended
        /\ node[x].stopped /\ ~node[x].ended
        /\ \A j \in MsgIds \ {i} : ~h[j].ran
        /\ resets = 0
        /\ clock >= 1 /\ nextStartTime = clock /\ sources = {}

\* C22: at most one session is open, and an open session is the one
\* this.session holds.
OneLiveSession ==
    \A s, u \in SessIds :
        sess[s] = "open" /\ sess[u] = "open" => s = u /\ session = s

\* C23: at most one acquired stream has live tracks, and at most one
\* processor has its onaudioprocess set.
OnePipeline ==
    /\ Cardinality({c \in StartIds : track[c] = "live"}) <= 1
    /\ Cardinality({c \in StartIds : handler[c]}) <= 1

\* C24: once stopRecording has returned, and until startRecording is invoked
\* again, isRecording is false and mediaStream, sourceNode and
\* scriptProcessorNode are null.
StopSticks ==
    stuck => /\ ~isRecording
             /\ mediaStream = Null
             /\ sourceNode = Null
             /\ scriptProcessorNode = Null

\* C25: sendRealtimeInput is called only while isRecording is true and
\* this.session is set and not closed; and an audio callback that finds
\* this.session closed sends nothing and leaves isRecording false.
SendOnlyWhileRecording ==
    [][ /\ sent' # sent
             => isRecording /\ session # NoSession /\ sess[session] = "open"
        /\ \A c \in StartIds :
             onaudioprocess(c) /\ session # NoSession /\ sess[session] = "closed"
                 => sent' = sent /\ ~isRecording' ]_vars

\* Frames were sent, then the session was closed and the next audio
\* callback stopped the recording.
SendOnlyWhileRecordingReached ==
    /\ sent = MaxFrames
    /\ session # NoSession /\ sess[session] = "closed"
    /\ ~isRecording /\ mediaStream = Null
    /\ \E c \in StartIds : track[c] = "stopped"
    /\ resets = 0
    /\ \A c \in StartIds : rec[c] \in {"idle", "done"}

====
